---- MODULE Spec2Model ----
(***************************************************************************)
(* Model of MaxHalford/detrak.                                             *)
(*                                                                         *)
(*   enumerate_layouts.py : Grid, enum and the main program that writes    *)
(*                          layouts_N.txt  (specification Spec)            *)
(*   precompute_scores.py : compute_score and the score table              *)
(*                          (specification SpecScore)                      *)
(*   evaluate_sequence.py : the evaluation loop  (specification SpecEval)  *)
(*                                                                         *)
(* Python lists are objects: `heap` maps an object reference to the list   *)
(* it holds, a Grid is represented by the reference of its `layout` list,  *)
(* and `layouts` holds references, exactly what layouts.append(grid.layout)*)
(* stores.  Cells and Python indices are 0-based as in the source; the     *)
(* TLA+ sequence that models a list is read at index + 1.                  *)
(***************************************************************************)
EXTENDS Integers, Sequences, FiniteSets, TLC

VARIABLES
    N,          \* grid side (enumerate_layouts.py:5, evaluate_sequence.py:5)
    heap,       \* list objects: reference |-> list of cell values
    stack,      \* call stack of enum: one frame per active call
    layouts,    \* the global list `layouts`: references of recorded lists
    pbar,       \* number of pbar.update(1) calls
    pc,         \* position of the main program
    file,       \* lines written to layouts_N.txt
    \* evaluate_sequence.py
    sequence,     \* the configured list of symbol pairs
    scores_json,  \* content of scores_N.json (input)
    layouts_txt,  \* content of layouts_N.txt (input), a list of lines
    scores,       \* the loaded table; <<>> before it is loaded
    li,           \* 1-based position of `line` in f.readlines()
    si,           \* 1-based position of `starting_symbol` in SYMBOLS
    grid,         \* the last SymbolGrid built; <<>> before the first
    terms,        \* the values summed for the last total; <<>> before
    score,        \* the last total computed; 0 stands for "not yet bound"
    best_score,   \* [fin |-> FALSE] is -math.inf
    epc,          \* position of the evaluator
    \* precompute_scores.py
    seq,          \* the argument of a call of compute_score
    seq_score     \* the call: pending, returned (with its value) or KeyError

enumVars == <<heap, stack, layouts, pbar, pc, file>>

evalVars == <<sequence, scores_json, layouts_txt, scores, li, si, grid, terms, score,
              best_score, epc>>

scoreVars == <<seq, seq_score>>

vars == <<N, enumVars, evalVars, scoreVars>>

\* Grid sides the model is run for.  4 is out of reach: the 4x4 search has
\* 39,368,064 leaves.
Sides == {2, 3}

\* Python's None in a cell (labels are integers >= 0).
None == -1

N_TILES == N * N

N_TURNS == (N_TILES - 1) \div 2

----------------------------------------------------------------------------
(* Python list access                                                      *)

\* list[idx] with Python's negative indices; 0-based result
PyIndex(len, idx) == IF idx < 0 THEN idx + len ELSE idx

\* Grid.__init__: [starting_symbol] + [None] * (N_TILES - 1)
Grid(starting_symbol) == <<starting_symbol>> \o [k \in 1..(N_TILES - 1) |-> None]

\* Grid.__getitem__
getitem(layout, i, j) == layout[PyIndex(Len(layout), N * i + j) + 1]

\* Grid.is_free
is_free(layout, i, j) == getitem(layout, i, j) = None

\* Grid.__setitem__ on the list object `ref` of heap `h`
setitem(h, ref, i, j, symbol) ==
    [h EXCEPT ![ref] = [@ EXCEPT ![PyIndex(Len(@), N * i + j) + 1] = symbol]]

\* a reference no live object has
NewRef(h) == CHOOSE r \in 1..(Cardinality(DOMAIN h) + 1) : r \notin DOMAIN h

\* variant: the "copy" is the list itself
copy_alias(h, ref) == [heap |-> h, ref |-> ref]

\* Grid.__copy__: a new Grid whose layout is a new list, self.layout[:]
copy(h, ref) ==
    LET r == NewRef(h) IN [heap |-> h @@ (r :> h[ref]), ref |-> r]

----------------------------------------------------------------------------
(* enum                                                                    *)

\* variant: the direction (0, -1) is missing from the list
Directions_without_left == << <<-1, 0>>, <<1, 0>>, <<0, 1>> >>

\* the direction list of the inner loop, in source order
Directions == << <<-1, 0>>, <<1, 0>>, <<0, -1>>, <<0, 1>> >>

\* variant: the cells of the diagonal are skipped as well
SymmetrySkip_with_diagonal(turn, i, j) == turn = 0 /\ i >= j

\* "Handle symmetries": the cells skipped at turn 0
SymmetrySkip(turn, i, j) == turn = 0 /\ i > j

\* variant: the test 0 <= j + h is missing
CanPlace_without_left_edge(layout, i, j, w, h) ==
    /\ 0 <= i + w /\ i + w < N
    /\ j + h < N
    /\ is_free(layout, i + w, j + h)

\* the condition under which the inner loop does NOT `continue`
CanPlace(layout, i, j, w, h) ==
    /\ 0 <= i + w /\ i + w < N
    /\ 0 <= j + h /\ j + h < N
    /\ is_free(layout, i + w, j + h)

\* variant: the neighbour gets the label of the first cell
PairLabels_same(turn) == <<2 * turn + 1, 2 * turn + 1>>

\* lines 68-69: the labels written at a turn, first cell then neighbour
PairLabels(turn) == <<2 * turn + 1, 2 * turn + 2>>

\* variant: the recursive call gets the turn of its caller
NextTurn_same(turn) == turn

\* line 72: the turn argument of the recursive call
NextTurn(turn) == turn + 1

\* variant: the else branch records without looking at `found`
RecordsAtElse_always(found) == TRUE

\* line 76: the for/else branch records the grid only if not found
RecordsAtElse(found) == ~found

\* The two nested loops of lines 51 and 59 visit the pairs (cell, direction)
\* in this order: x = 1 is cell (0,0) with the first direction.
LastCandidate == N_TILES * Len(Directions)

Candidate(x) ==
    [i |-> ((x - 1) \div Len(Directions)) \div N,
     j |-> ((x - 1) \div Len(Directions)) % N,
     w |-> Directions[((x - 1) % Len(Directions)) + 1][1],
     h |-> Directions[((x - 1) % Len(Directions)) + 1][2]]

\* variant: the first cell of the pair is not tested for being free
Taken_any_first_cell(layout, turn, skip, c) ==
    /\ ~(skip /\ SymmetrySkip(turn, c.i, c.j))
    /\ CanPlace(layout, c.i, c.j, c.w, c.h)

\* lines 52-65: no `continue` is taken for this (cell, direction);
\* `skip` tells whether lines 56-57 are present (they are, in the program)
Taken(layout, turn, skip, c) ==
    /\ is_free(layout, c.i, c.j)
    /\ ~(skip /\ SymmetrySkip(turn, c.i, c.j))
    /\ CanPlace(layout, c.i, c.j, c.w, c.h)

\* variant: the smaller label goes to the cell that comes first in the list
Placed_by_position(h, ref, turn, c) ==
    LET n  == copy(h, ref)
        fw == N * c.i + c.j < N * (c.i + c.w) + (c.j + c.h)
        h1 == setitem(n.heap, n.ref, c.i, c.j, PairLabels(turn)[IF fw THEN 1 ELSE 2])
        h2 == setitem(h1, n.ref, c.i + c.w, c.j + c.h,
                      PairLabels(turn)[IF fw THEN 2 ELSE 1])
    IN  [heap |-> h2, ref |-> n.ref]

\* lines 67-69 on heap h: new_grid and the heap that holds it
Placed(h, ref, turn, c) ==
    LET n  == copy(h, ref)
        h1 == setitem(n.heap, n.ref, c.i, c.j, PairLabels(turn)[1])
        h2 == setitem(h1, n.ref, c.i + c.w, c.j + c.h, PairLabels(turn)[2])
    IN  [heap |-> h2, ref |-> n.ref]

\* lines 51-69 as a value: the grids new_grid of one call, in loop order
Placements(layout, turn, skip) ==
    LET xs == SelectSeq([x \in 1..LastCandidate |-> x],
                        LAMBDA x : Taken(layout, turn, skip, Candidate(x)))
    IN  [k \in 1..Len(xs) |->
            LET n == Placed((1 :> layout), 1, turn, Candidate(xs[k]))
            IN  n.heap[n.ref]]

\* lines 42-78 as a value: the layouts one call of enum appends, in order
RECURSIVE enum(_, _, _)
RECURSIVE EnumEach(_, _, _)
enum(layout, turn, skip) ==
    IF turn = N_TURNS THEN <<layout>>
    ELSE LET new == Placements(layout, turn, skip) IN
         IF RecordsAtElse(new # <<>>)
            THEN EnumEach(new, NextTurn(turn), skip) \o <<layout>>
            ELSE EnumEach(new, NextTurn(turn), skip)

EnumEach(grids, turn, skip) ==
    IF grids = <<>> THEN <<>>
    ELSE enum(Head(grids), turn, skip) \o EnumEach(Tail(grids), turn, skip)

Top == stack[Len(stack)]

Pop == SubSeq(stack, 1, Len(stack) - 1)

\* a call of enum: its arguments, the next (cell, direction) of its loops
\* and its local `found`
Frame(ref, turn) == [grid |-> ref, turn |-> turn, x |-> 1, found |-> FALSE]

\* reference counting: the list `ref` of a returning call is freed unless a
\* caller's grid or an entry of `layouts` still refers to it
Release(h, ref, stk, lays) ==
    IF \/ \E k \in 1..Len(stk) : stk[k].grid = ref
       \/ \E k \in 1..Len(lays) : lays[k] = ref
       THEN h
       ELSE [r \in DOMAIN h \ {ref} |-> h[r]]

\* the recorded layouts by value
Recorded == [k \in 1..Len(layouts) |-> heap[layouts[k]]]

\* the (cell, direction) pairs from x on for which the loops place a pair
Pending(f) ==
    {y \in f.x..LastCandidate : Taken(heap[f.grid], f.turn, TRUE, Candidate(y))}

\* lines 44-47: if turn == N_TURNS: record and return
EnumFull ==
    /\ pc = "enum" /\ stack # <<>>
    /\ Top.turn = N_TURNS
    /\ layouts' = Append(layouts, Top.grid)
    /\ pbar' = pbar + 1
    /\ stack' = Pop
    /\ heap' = Release(heap, Top.grid, stack', layouts')
    /\ UNCHANGED <<N, pc, file, evalVars, scoreVars>>

\* lines 51-72: the loops run up to the next pair that can be placed, place
\* it on a copy and call enum(new_grid, turn + 1)
EnumPlace ==
    /\ pc = "enum" /\ stack # <<>>
    /\ Top.turn # N_TURNS
    /\ \E y \in Pending(Top) :
          /\ \A z \in Pending(Top) : y <= z
          /\ \E n \in {Placed(heap, Top.grid, Top.turn, Candidate(y))} :
                /\ heap' = n.heap
                /\ stack' = Append([stack EXCEPT ![Len(stack)] =
                                       [Top EXCEPT !.found = TRUE, !.x = y + 1]],
                                   Frame(n.ref, NextTurn(Top.turn)))
    /\ UNCHANGED <<N, layouts, pbar, pc, file, evalVars, scoreVars>>

\* lines 51-78: the loops run to their end, then the else branch; the grid
\* is recorded if no pair was placed in this call
EnumElse ==
    /\ pc = "enum" /\ stack # <<>>
    /\ Top.turn # N_TURNS
    /\ Pending(Top) = {}
    /\ IF RecordsAtElse(Top.found)
          THEN layouts' = Append(layouts, Top.grid) /\ pbar' = pbar + 1
          ELSE UNCHANGED <<layouts, pbar>>
    /\ stack' = Pop
    /\ heap' = Release(heap, Top.grid, stack', layouts')
    /\ UNCHANGED <<N, pc, file, evalVars, scoreVars>>

\* line 83 has returned
EnumReturn ==
    /\ pc = "enum" /\ stack = <<>>
    /\ pc' = "write"
    /\ UNCHANGED <<N, heap, stack, layouts, pbar, file, evalVars, scoreVars>>

----------------------------------------------------------------------------
(* Text: a Python str is modelled as the sequence of its characters        *)

Digit == <<"0", "1", "2", "3", "4", "5", "6", "7", "8", "9">>

\* str(n) for an integer n >= 0
RECURSIVE str(_)
str(n) == IF n < 10 THEN <<Digit[n + 1]>>
                    ELSE str(n \div 10) \o <<Digit[(n % 10) + 1]>>

\* sep.join(parts)
RECURSIVE join(_, _)
join(sep, parts) ==
    IF parts = <<>> THEN <<>>
    ELSE IF Len(parts) = 1 THEN parts[1]
    ELSE parts[1] \o sep \o join(sep, Tail(parts))

\* variant: the tokens are joined by commas
code_with_commas(layout) ==
    join(<<",">>, [k \in 1..Len(layout) |->
                     IF layout[k] = None THEN <<"_">> ELSE str(layout[k])])

\* line 87: ' '.join('_' if i is None else str(i) for i in layout)
code(layout) ==
    join(<<" ">>, [k \in 1..Len(layout) |->
                     IF layout[k] = None THEN <<"_">> ELSE str(layout[k])])

\* lines 85-88: one line per recorded layout
WriteFile ==
    /\ pc = "write"
    /\ file' = [k \in 1..Len(layouts) |-> code(heap[layouts[k]]) \o <<"\n">>]
    /\ pc' = "done"
    /\ UNCHANGED <<N, heap, stack, layouts, pbar, evalVars, scoreVars>>

----------------------------------------------------------------------------
(* precompute_scores.py                                                    *)

SYMBOLS == <<"A", "B", "C", "D", "E">>

SCORE_GRID == (1 :> 0) @@ (2 :> 2) @@ (3 :> 3) @@ (4 :> 8) @@ (5 :> 10)

RECURSIVE Sum(_)
Sum(xs) == IF xs = <<>> THEN 0 ELSE Head(xs) + Sum(Tail(xs))

\* itertools.groupby(sequence): the maximal runs as <<symbol, length>>
RECURSIVE groupby(_)
groupby(xs) ==
    IF xs = <<>> THEN <<>>
    ELSE LET rest == groupby(Tail(xs)) IN
         IF rest # <<>> /\ rest[1][1] = Head(xs)
            THEN << <<Head(xs), rest[1][2] + 1>> >> \o Tail(rest)
            ELSE << <<Head(xs), 1>> >> \o rest

\* variant: the blanks are dropped before the runs are formed
compute_score_joining_over_blanks(xs) ==
    LET g == groupby(SelectSeq(xs, LAMBDA x : x # "_")) IN
    Sum([k \in 1..Len(g) |-> SCORE_GRID[g[k][2]]])

\* lines 15-20: the sum of SCORE_GRID over the non-blank groups
compute_score(xs) ==
    LET g == groupby(xs) IN
    Sum([k \in 1..Len(g) |-> IF g[k][1] # "_" THEN SCORE_GRID[g[k][2]] ELSE 0])

\* lines 16-19: SCORE_GRID[...] is looked up for the non-blank groups only,
\* and a group length that is not a key raises KeyError
MissingKey(xs) ==
    LET g == groupby(xs) IN
    \E k \in 1..Len(g) : g[k][1] # "_" /\ g[k][2] \notin DOMAIN SCORE_GRID

\* a call compute_score(seq) that returns
ComputeScore ==
    /\ seq_score.at = "pending"
    /\ ~MissingKey(seq)
    /\ seq_score' = [at |-> "returned", value |-> compute_score(seq)]
    /\ UNCHANGED <<N, enumVars, evalVars, seq>>

\* a call compute_score(seq) that raises
ComputeScoreKeyError ==
    /\ seq_score.at = "pending"
    /\ MissingKey(seq)
    /\ seq_score' = [at |-> "KeyError", value |-> 0]
    /\ UNCHANGED <<N, enumVars, evalVars, seq>>

Range(f) == {f[x] : x \in DOMAIN f}

\* lines 23-26: the table over itertools.product(alphabet, repeat=N)
ScoreTable(alphabet) == [xs \in [1..N -> Range(alphabet)] |-> compute_score(xs)]

\* variant: the table is built over SYMBOLS only
PrecomputedTable_without_blank == ScoreTable(SYMBOLS)

\* lines 22-26: scores, over itertools.product(SYMBOLS + '_', repeat=N)
PrecomputedTable == ScoreTable(SYMBOLS \o <<"_">>)

----------------------------------------------------------------------------
(* evaluate_sequence.py                                                    *)

Whitespace == {" ", "\n", "\t", "\r"}

\* str.rstrip()
RECURSIVE rstrip(_)
rstrip(xs) ==
    IF xs # <<>> /\ xs[Len(xs)] \in Whitespace
       THEN rstrip(SubSeq(xs, 1, Len(xs) - 1))
       ELSE xs

\* str.split(sep) for a one-character sep
RECURSIVE split(_, _)
split(xs, sep) ==
    IF \A k \in 1..Len(xs) : xs[k] # sep THEN <<xs>>
    ELSE LET k == CHOOSE x \in 1..Len(xs) :
                     xs[x] = sep /\ \A y \in 1..(x - 1) : xs[y] # sep
         IN  <<SubSeq(xs, 1, k - 1)>> \o split(SubSeq(xs, k + 1, Len(xs)), sep)

\* int(s) for a string of decimal digits
RECURSIVE int(_)
int(xs) ==
    LET v == CHOOSE d \in 0..9 : Digit[d + 1] = xs[Len(xs)] IN
    IF Len(xs) = 1 THEN v ELSE 10 * int(SubSeq(xs, 1, Len(xs) - 1)) + v

\* line 16: symbols = ''.join(sequence)
symbols == join(<<>>, sequence)

\* lines 37-40: the dict position -> symbol of one line of the layouts file
LayoutOf(line) ==
    LET toks == split(rstrip(line), " ")
        keys == {i \in 0..(Len(toks) - 1) : toks[i + 1] # <<"_">> /\ toks[i + 1] # <<"0">>}
    IN  [i \in keys |-> symbols[PyIndex(Len(symbols), int(toks[i + 1]) - 1) + 1]]

\* variant: the cells without a symbol get the starting symbol
GridOf_filled(layout, starting_symbol) ==
    [k \in 1..N_TILES |->
        IF (k - 1) \in DOMAIN layout THEN layout[k - 1] ELSE starting_symbol]

\* lines 43-45: the SymbolGrid of a layout dict and a starting symbol
GridOf(layout, starting_symbol) ==
    [k \in 1..N_TILES |->
        IF (k - 1) \in DOMAIN layout THEN layout[k - 1]
        ELSE IF k = 1 THEN starting_symbol ELSE "_"]

rows(g) == [i \in 1..N |-> [j \in 1..N |-> g[(i - 1) * N + (j - 1) + 1]]]

columns(g) == [i \in 1..N |-> [j \in 1..N |-> g[(i - 1) + (j - 1) * N + 1]]]

\* variant: the diagonal through the seed cell, grid[(N + 1) * i]
diagonal_through_seed(g) == [i \in 1..N |-> g[(N + 1) * (i - 1) + 1]]

\* line 27: grid[(N - 1) * (i + 1)] for i in range(N)
diagonal(g) == [i \in 1..N |-> g[(N - 1) * ((i - 1) + 1) + 1]]

\* lines 48-52: the lines that are looked up, in order
LinesOf(g) == rows(g) \o columns(g) \o <<diagonal(g), diagonal(g)>>

\* variant: the left operand, whatever it is
PyOr_left(x, y) == x

\* Python's `x or y` on integers
PyOr(x, y) == IF x # 0 THEN x ELSE y

\* variant: a missing key reads as 0, as scores.get(line, 0) would
Lookup_with_default(table, line) ==
    IF line \in DOMAIN table THEN [ok |-> TRUE, val |-> table[line]]
                             ELSE [ok |-> TRUE, val |-> 0]

\* line 47: scores[line] on a dict: the value, or KeyError (ok = FALSE)
Lookup(table, line) ==
    IF line \in DOMAIN table THEN [ok |-> TRUE, val |-> table[line]]
                             ELSE [ok |-> FALSE, val |-> 0]

\* line 47: scores[line] or -5, when the lookup does not raise
Term(table, line) == PyOr(Lookup(table, line).val, -5)

\* line 47: the lookup of this line raises KeyError
Misses(table, line) == ~Lookup(table, line).ok

\* lines 47-52: the values the generator yields for grid g
Terms(table, g) == [k \in 1..Len(LinesOf(g)) |-> Term(table, LinesOf(g)[k])]

\* lines 46-53 when no lookup raises
Total(table, g) == Sum(Terms(table, g))

Unbound == [bound |-> FALSE, fin |-> FALSE, val |-> 0]

\* -math.inf
NegInf == [bound |-> TRUE, fin |-> FALSE, val |-> 0]

Finite(v) == [bound |-> TRUE, fin |-> TRUE, val |-> v]

\* variant: every total replaces best_score
Better_always(s, best) == TRUE

\* line 54: score > best_score
Better(s, best) == ~best.fin \/ s > best.val

\* the grid built in the current iteration
CurrentGrid == GridOf(LayoutOf(layouts_txt[li]), SYMBOLS[si])

\* variant: a sequence longer than the turn budget passes
SequenceOk_at_least == Len(sequence) >= N_TURNS

\* line 18: the asserted condition
SequenceOk == Len(sequence) = N_TURNS

\* line 18: assert len(sequence) == N_TURNS
CheckSequence ==
    /\ epc = "assert"
    /\ epc' = IF SequenceOk THEN "load" ELSE "AssertionError"
    /\ UNCHANGED <<N, enumVars, scoreVars, sequence, scores_json, layouts_txt, scores, li, si,
                   grid, terms, score, best_score>>

\* lines 29-35: load the table, best_score = -math.inf, read the lines
LoadScores ==
    /\ epc = "load"
    /\ scores' = scores_json
    /\ best_score' = NegInf
    /\ li' = 1 /\ si' = 1
    /\ epc' = "loop"
    /\ UNCHANGED <<N, enumVars, scoreVars, sequence, scores_json, layouts_txt, grid, terms, score>>

\* lines 36-56: one iteration of the inner loop, every lookup succeeding
EvalScore ==
    /\ epc = "loop" /\ li <= Len(layouts_txt)
    /\ LET g == CurrentGrid
           s == Total(scores, g)
       IN  /\ \A k \in 1..Len(LinesOf(g)) : ~Misses(scores, LinesOf(g)[k])
           /\ grid' = g
           /\ terms' = Terms(scores, g)
           /\ score' = s
           /\ best_score' = IF Better(s, best_score) THEN Finite(s) ELSE best_score
    /\ IF si < Len(SYMBOLS)
          THEN si' = si + 1 /\ li' = li
          ELSE si' = 1 /\ li' = li + 1
    /\ UNCHANGED <<N, enumVars, scoreVars, sequence, scores_json, layouts_txt, scores, epc>>

\* lines 43-47: the grid is built, then a lookup raises KeyError
EvalKeyError ==
    /\ epc = "loop" /\ li <= Len(layouts_txt)
    /\ LET g == CurrentGrid
       IN  /\ \E k \in 1..Len(LinesOf(g)) : Misses(scores, LinesOf(g)[k])
           /\ grid' = g
    /\ epc' = "KeyError"
    /\ UNCHANGED <<N, enumVars, scoreVars, sequence, scores_json, layouts_txt, scores, li, si,
                   terms, score, best_score>>

\* the loop of line 36 is exhausted
EvalDone ==
    /\ epc = "loop" /\ li > Len(layouts_txt)
    /\ epc' = "done"
    /\ UNCHANGED <<N, enumVars, scoreVars, sequence, scores_json, layouts_txt, scores, li, si,
                   grid, terms, score, best_score>>

----------------------------------------------------------------------------
(* The placement rules, stated on grids and independently of enum          *)

Abs(x) == IF x < 0 THEN -x ELSE x

\* row and column of the 1-based position p of a list of N * N cells
RowOf(p) == (p - 1) \div N

ColOf(p) == (p - 1) % N

Manhattan(p, q) == Abs(RowOf(p) - RowOf(q)) + Abs(ColOf(p) - ColOf(q))

Where(L, v) == {p \in 1..Len(L) : L[p] = v}

\* the legal placements at turn t: first cell p, neighbour q
LegalMoves(L, t, reduced) ==
    {m \in (1..N_TILES) \X (1..N_TILES) :
        /\ L[m[1]] = None /\ L[m[2]] = None
        /\ Manhattan(m[1], m[2]) = 1
        /\ (reduced /\ t = 0) => RowOf(m[1]) <= ColOf(m[1])}

Play(L, t, m) == [L EXCEPT ![m[1]] = 2 * t + 1, ![m[2]] = 2 * t + 2]

RECURSIVE Reach(_, _)
Reach(t, reduced) ==
    IF t = 0 THEN {Grid(0)}
    ELSE UNION {{Play(L, t - 1, m) : m \in LegalMoves(L, t - 1, reduced)} :
                  L \in Reach(t - 1, reduced)}

\* the terminal grids: the turn budget is used up or no placement is legal
Leaves(reduced) ==
    UNION {{L \in Reach(t, reduced) :
               t = N_TURNS \/ LegalMoves(L, t, reduced) = {}} : t \in 0..N_TURNS}

\* reflection in the diagonal through the seed cell
Transpose(L) == [p \in 1..Len(L) |-> L[ColOf(p) * N + RowOf(p) + 1]]

----------------------------------------------------------------------------
(* Inputs of the evaluator                                                 *)

\* the longest layouts file the evaluator is run on
MaxLines == 2

\* line 10-15, and a one-pair sequence (the right length for N = 2)
SequencePool == { << <<"A", "B">>, <<"B", "C">>, <<"A", "C">>, <<"B", "D">> >>,
               << <<"A", "B">> >> }

\* grids of the 3x3 search the evaluator is run on, beside the 2x2 ones
Samples ==
    { <<0, 1, 2, 3, 4, 5, 7, 8, 6>>,
      <<0, 2, 1, 4, 3, 5, 8, 7, 6>>,
      <<0, 1, 3, None, 2, 4, 5, 6, None>>,
      <<0, None, 6, 3, 4, 5, None, 2, 1>> }

\* lines of layouts_N.txt as the enumerator writes them
LayoutLines == {code(L) \o <<"\n">> : L \in {M \in Leaves(TRUE) : N = 2 \/ M \in Samples}}

\* the table of precompute_scores.py, and the variant without blank keys
Tables == {PrecomputedTable, ScoreTable(SYMBOLS)}

SeqsUpTo(S, n) == UNION {[1..k -> S] : k \in 0..n}

----------------------------------------------------------------------------

\* lines 80-83: layouts = [], grid = Grid(0), enum(grid, turn=0, ...)
Init ==
    /\ N \in Sides
    /\ heap = (1 :> Grid(0))
    /\ stack = <<Frame(1, 0)>>
    /\ layouts = <<>>
    /\ pbar = 0
    /\ pc = "enum"
    /\ file = <<>>
    /\ sequence = <<>> /\ scores_json = <<>> /\ layouts_txt = <<>>
    /\ scores = <<>> /\ li = 0 /\ si = 0 /\ grid = <<>> /\ terms = <<>> /\ score = 0
    /\ best_score = Unbound /\ epc = "idle"
    /\ seq = <<>> /\ seq_score = [at |-> "idle", value |-> 0]

Next ==
    \/ EnumFull
    \/ EnumPlace
    \/ EnumElse
    \/ EnumReturn
    \/ WriteFile

Spec == Init /\ [][Next]_vars

\* the same program, run: the interpreter executes one thread and takes
\* the next step of the program whenever there is one
SpecRun == Init /\ [][Next]_vars /\ WF_vars(Next)

\* evaluate_sequence.py started on a sequence, a score table and a layouts file
InitEval ==
    /\ N \in Sides
    /\ heap = <<>> /\ stack = <<>> /\ layouts = <<>> /\ pbar = 0
    /\ pc = "idle" /\ file = <<>>
    /\ sequence \in SequencePool
    /\ scores_json \in Tables
    /\ layouts_txt \in SeqsUpTo(LayoutLines, MaxLines)
    /\ scores = <<>> /\ li = 0 /\ si = 0 /\ grid = <<>> /\ terms = <<>> /\ score = 0
    /\ best_score = Unbound /\ epc = "assert"
    /\ seq = <<>> /\ seq_score = [at |-> "idle", value |-> 0]

NextEval ==
    \/ CheckSequence
    \/ LoadScores
    \/ EvalScore
    \/ EvalKeyError
    \/ EvalDone

SpecEval == InitEval /\ [][NextEval]_vars

\* the longest argument of compute_score
MaxSeqLen == 6

\* the symbols the arguments of compute_score are drawn from
SeqAlphabet == {"A", "B", "_"}

\* precompute_scores.py: one call of compute_score on any argument
InitScore ==
    /\ N \in Sides
    /\ heap = <<>> /\ stack = <<>> /\ layouts = <<>> /\ pbar = 0
    /\ pc = "idle" /\ file = <<>>
    /\ sequence = <<>> /\ scores_json = <<>> /\ layouts_txt = <<>>
    /\ scores = <<>> /\ li = 0 /\ si = 0 /\ grid = <<>> /\ terms = <<>> /\ score = 0
    /\ best_score = Unbound /\ epc = "idle"
    /\ seq \in UNION {[1..n -> SeqAlphabet] : n \in 0..MaxSeqLen}
    /\ seq_score = [at |-> "pending", value |-> 0]

NextScore ==
    \/ ComputeScore
    \/ ComputeScoreKeyError

SpecScore == InitScore /\ [][NextScore]_vars

----------------------------------------------------------------------------
(* Properties of the enumerator (specification Spec)                       *)

EnumReturned == pc \in {"write", "done"}

\* the newest recorded layout
Latest == IF layouts = <<>> THEN {} ELSE {Len(layouts)}

\* A recorded list is examined in the state in which it is the newest one,
\* and all of them are examined again once enum has returned.
ToCheck == IF EnumReturned THEN 1..Len(layouts) ELSE Latest

HasFreePair(L) ==
    \E p \in 1..Len(L) : \E q \in 1..Len(L) :
        L[p] = None /\ L[q] = None /\ Manhattan(p, q) = 1

\* the list appended by the step, read in the state after it
Appended == heap'[layouts'[Len(layouts')]]

Appends == Len(layouts') > Len(layouts)

\* C1: when enum(Grid(0), 0) has returned, every grid that legal placements
\* reach from the seed-only grid (with the turn-0 rule i <= j) and that is
\* terminal is in `layouts`.
C1_Exhaustive == EnumReturned => Leaves(TRUE) \subseteq Range(Recorded)

\* a finished search that recorded a leaf whose turn-0 choice is not the
\* first one the loops try (cell (0,1), neighbour (1,1))
W_C1 ==
    /\ pc = "write"
    /\ \E L \in Range(Recorded) : ~(L[2] = 1 /\ L[N + 2] = 2)

\* C2: whenever enum appends a layout, it does so at turn = N_TURNS or the
\* layout has no two adjacent empty cells.
C2_OnlyTerminal ==
    [][Appends => (Top.turn = N_TURNS \/ ~HasFreePair(Appended))]_vars

\* a layout recorded before the turn budget was used up
W_C2 ==
    \E k \in Latest :
        /\ Where(heap[layouts[k]], 2 * N_TURNS) = {}
        /\ ~HasFreePair(heap[layouts[k]])

\* C3: in every recorded layout the cells labelled 2t+1 and 2t+2 are at
\* Manhattan distance 1 on the N x N grid.
C3_PairsAdjacent ==
    \A k \in ToCheck :
        LET L == heap[layouts[k]] IN
        /\ Len(L) = N_TILES
        /\ \A t \in 0..(N_TURNS - 1) :
              \A p \in Where(L, 2 * t + 1) \cup Where(L, 2 * t + 2) :
                 \E q \in Where(L, 2 * t + 1) \cup Where(L, 2 * t + 2) :
                    Manhattan(p, q) = 1

\* a recorded 3x3 layout with a pair lying in one row and a pair in one column
W_C3 ==
    \E k \in Latest :
        LET L == heap[layouts[k]] IN
        /\ N = 3
        /\ \E t \in 0..(N_TURNS - 1) : \E p \in Where(L, 2 * t + 1) :
              \E q \in Where(L, 2 * t + 2) : RowOf(p) = RowOf(q)
        /\ \E t \in 0..(N_TURNS - 1) : \E p \in Where(L, 2 * t + 1) :
              \E q \in Where(L, 2 * t + 2) : ColOf(p) = ColOf(q)

\* the seed once, each label 1..2*N_TURNS once, the rest empty
IsFull(L) ==
    /\ Cardinality(Where(L, 0)) = 1
    /\ \A v \in 1..(2 * N_TURNS) : Cardinality(Where(L, v)) = 1
    /\ Cardinality(Where(L, None)) = N * N - 1 - 2 * N_TURNS
    /\ Cardinality(Where(L, None)) = (IF N % 2 = 1 THEN 0 ELSE 1)
    /\ Len(L) = N * N

\* C4: N_TURNS is the floor of (N*N - 1) / 2, and a layout recorded because
\* turn = N_TURNS holds the seed and each label 1..2*N_TURNS exactly once,
\* with no empty cell for odd N and one for even N.
C4_FullLayouts ==
    [][/\ 2 * N_TURNS <= N * N - 1
       /\ N * N - 1 < 2 * N_TURNS + 2
       /\ (Appends /\ Top.turn = N_TURNS) => IsFull(Appended)]_vars

\* a layout recorded at turn = N_TURNS
W_C4 ==
    \E k \in Latest :
        /\ Where(heap[layouts[k]], 2 * N_TURNS) # {}
        /\ Cardinality(Where(heap[layouts[k]], None)) = N * N - 1 - 2 * N_TURNS

\* C5: every layout that enum produces without the turn-0 skip is recorded
\* by enum with the skip, or its transpose is.
C5_NoOutcomeLost ==
    EnumReturned =>
        \A L \in Range(enum(Grid(0), 0, FALSE)) :
            L \in Range(Recorded) \/ Transpose(L) \in Range(Recorded)

\* a layout of the unreduced search that the reduced one kept only transposed
W_C5 ==
    /\ pc = "write"
    /\ \E L \in Range(enum(Grid(0), 0, FALSE)) :
          L \notin Range(Recorded) /\ Transpose(L) \in Range(Recorded)

\* C6: the output of the 3x3 search with the turn-0 reduction never holds
\* both a layout and its distinct transpose.
CE_C6 ==
    N = 3 =>
        \A k \in ToCheck : \A m \in 1..Len(layouts) :
            LET L == heap[layouts[k]] IN
            Transpose(L) # L => heap[layouts[m]] # Transpose(L)

----------------------------------------------------------------------------
(* Properties of the evaluator (specification SpecEval)                    *)

\* grid, terms and score belong to one evaluated combination
Evaluated == epc \in {"loop", "done"} /\ grid # <<>>

Cell(g, r, c) == g[r * N + c + 1]

RowLine(g, r) == [k \in 1..N |-> Cell(g, r, k - 1)]

ColLine(g, c) == [k \in 1..N |-> Cell(g, k - 1, c)]

\* cells (k, k)
MainDiagonal(g) == [k \in 1..N |-> Cell(g, k - 1, k - 1)]

\* cells (k, N - 1 - k)
AntiDiagonal(g) == [k \in 1..N |-> Cell(g, k - 1, N - k)]

\* the contribution of a line that is a key of the loaded table
Contribution(line) == IF scores[line] = 0 THEN -5 ELSE scores[line]

RowsAndColumns(g) ==
    Sum([r \in 1..N |-> Contribution(RowLine(g, r - 1))])
      + Sum([c \in 1..N |-> Contribution(ColLine(g, c - 1))])

\* C7 as stated: the total is rows + columns + twice the main diagonal
\* (cells (k, k)).
CE_C7 ==
    Evaluated => score = RowsAndColumns(grid) + 2 * Contribution(MainDiagonal(grid))

\* C7 amended: the total is rows + columns + twice the diagonal through cells
\* (k, N-1-k), which does not hold the seed cell; with one diagonal term
\* removed the total drops by that diagonal's contribution.
C7_AntiDiagonalTwice ==
    Evaluated =>
        /\ score = RowsAndColumns(grid) + 2 * Contribution(AntiDiagonal(grid))
        /\ score - Sum(SubSeq(terms, 1, Len(terms) - 1))
              = Contribution(AntiDiagonal(grid))
        /\ Len(terms) = 2 * N + 2

\* an evaluated grid whose two diagonals contribute differently
W_C7 ==
    /\ Evaluated
    /\ Contribution(AntiDiagonal(grid)) # Contribution(MainDiagonal(grid))

\* C8: a looked-up line whose entry is 0 contributes -5, any other entry
\* contributes itself, and no term of a total is 0.
C8_LegacyPenalty ==
    Evaluated =>
        /\ \A k \in 1..Len(terms) :
              /\ scores[LinesOf(grid)[k]] = 0 => terms[k] = -5
              /\ scores[LinesOf(grid)[k]] # 0 => terms[k] = scores[LinesOf(grid)[k]]
              /\ terms[k] # 0
        /\ score = Sum(terms)

\* a total with a penalised line and a scoring line
W_C8 ==
    /\ Evaluated
    /\ \E k \in 1..Len(terms) : scores[LinesOf(grid)[k]] = 0 /\ terms[k] = -5
    /\ \E k \in 1..Len(terms) : terms[k] > 0

\* the combinations (line, starting symbol) the loop has completed
Before == {c \in (1..Len(layouts_txt)) \X (1..Len(SYMBOLS)) :
              c[1] < li \/ (c[1] = li /\ c[2] < si)}

GridAt(c) == GridOf(LayoutOf(layouts_txt[c[1]]), SYMBOLS[c[2]])

HasAbsentLine(g) == \E k \in 1..Len(LinesOf(g)) : LinesOf(g)[k] \notin DOMAIN scores

\* the maximum of a set of totals as a value of best_score
MaxOf(S) == IF S = {} THEN NegInf
            ELSE Finite(CHOOSE m \in S : \A x \in S : x <= m)

\* C9 as stated: a line without a table entry does not abort the evaluation.
CE_C9 == (grid # <<>> /\ HasAbsentLine(grid)) => epc # "KeyError"

\* C9 amended: a line without a table entry aborts the evaluation with
\* KeyError at that grid: best_score keeps the maximum of the combinations
\* completed before, nothing is evaluated afterwards, and no combination
\* with such a line is ever completed.
C9_MissingEntryAborts ==
    /\ epc = "KeyError" =>
          /\ HasAbsentLine(grid)
          /\ grid = GridAt(<<li, si>>)
          /\ best_score = MaxOf({Total(scores, GridAt(c)) : c \in Before})
          /\ ~ENABLED NextEval
    /\ epc \in {"loop", "done"} => \A c \in Before : ~HasAbsentLine(GridAt(c))

\* an abort after at least one combination was completed
W_C9 == epc = "KeyError" /\ best_score.fin /\ li = 2

Le(a, b) == ~a.fin \/ (b.fin /\ a.val <= b.val)

\* C10: best_score starts at -inf, never decreases, is the maximum of the
\* totals completed so far, and at the end of the loop is the maximum over
\* {lines} x SYMBOLS, whatever the order of the lines.
C10_RunningMax ==
    /\ [](epc \in {"loop", "done", "KeyError"} =>
            /\ best_score = MaxOf({Total(scores, GridAt(c)) : c \in Before})
            /\ (li = 1 /\ si = 1) => best_score = NegInf
            /\ epc = "done" =>
                  best_score = MaxOf({Total(scores, GridOf(LayoutOf(l), x)) :
                                        l \in Range(layouts_txt), x \in Range(SYMBOLS)}))
    /\ [][best_score.bound => (best_score'.bound /\ Le(best_score, best_score'))]_vars

\* a finished run whose last total is below the maximum
W_C10 ==
    /\ epc = "done" /\ Len(layouts_txt) = 2
    /\ best_score.fin /\ score < best_score.val

\* ---- C11 ----------------------------------------------------------------

\* the first positions of the maximal runs of identical adjacent symbols
RunStarts(xs) == {a \in 1..Len(xs) : a = 1 \/ xs[a - 1] # xs[a]}

\* the length of the maximal run that starts at position a
RunLength(xs, a) ==
    LET b == CHOOSE e \in a..Len(xs) :
                 /\ \A k \in a..e : xs[k] = xs[a]
                 /\ (e = Len(xs) \/ xs[e + 1] # xs[a])
    IN  b - a + 1

\* the score of a run of the given length; no score for a longer run
RunScore(len) ==
    CASE len = 1 -> 0 [] len = 2 -> 2 [] len = 3 -> 3 [] len = 4 -> 8
      [] len = 5 -> 10 [] OTHER -> Unbound

RECURSIVE SumOver(_, _)
SumOver(S, xs) ==
    IF S = {} THEN 0
    ELSE LET a == CHOOSE x \in S : TRUE IN
         (IF xs[a] = "_" THEN 0 ELSE RunScore(RunLength(xs, a)))
             + SumOver(S \ {a}, xs)

Returned(xs, v) == seq = xs => seq_score = [at |-> "returned", value |-> v]

\* C11: a call of compute_score that returns gives the sum of RunScore over
\* the maximal runs of its argument, the blank runs counting 0 and
\* separating their neighbours; it raises exactly when a non-blank run is
\* longer than 5; AAAAA gives 10, ABABA 0, AABAA 4, AABBB 5 and A_A 0
C11_RunSum ==
    seq_score.at # "pending" =>
        /\ seq_score.at = "KeyError" <=>
               \E a \in RunStarts(seq) : seq[a] # "_" /\ RunLength(seq, a) > 5
        /\ seq_score.at = "returned" => seq_score.value = SumOver(RunStarts(seq), seq)
        /\ Returned(<<"A", "A", "A", "A", "A">>, 10)
        /\ Returned(<<"A", "B", "A", "B", "A">>, 0)
        /\ Returned(<<"A", "A", "B", "A", "A">>, 4)
        /\ Returned(<<"A", "A", "B", "B", "B">>, 5)
        /\ Returned(<<"A", "_", "A">>, 0)

\* compute_score returned for two pairs that a blank run separates
W_C11 ==
    /\ seq = <<"A", "A", "_", "A", "A">>
    /\ seq_score = [at |-> "returned", value |-> 4]

\* ---- C12 ----------------------------------------------------------------

\* nothing after the precondition check has run
NothingLoaded ==
    /\ scores = <<>>
    /\ best_score = Unbound
    /\ li = 0 /\ si = 0
    /\ grid = <<>> /\ terms = <<>>

\* C12: with a sequence that has not exactly N_TURNS pairs the evaluator
\* stops at the assertion, with no table loaded, no layout translated or
\* scored and best_score unassigned; with exactly N_TURNS pairs the
\* assertion passes and the table is loaded next
C12_FailFast ==
    /\ Len(sequence) # N_TURNS =>
          /\ epc \in {"assert", "AssertionError"}
          /\ NothingLoaded
    /\ epc = "AssertionError" => Len(sequence) # N_TURNS /\ ~ENABLED NextEval
    /\ Len(sequence) = N_TURNS =>
          /\ epc # "AssertionError"
          /\ epc = "assert" => ENABLED CheckSequence

\* the assertion failed on a sequence of the wrong length
W_C12 ==
    /\ epc = "AssertionError"
    /\ Len(sequence) # N_TURNS
    /\ NothingLoaded

\* ---- C13 ----------------------------------------------------------------

\* the space-separated tokens of a written line, without its newline
TokensOf(line) == split(SubSeq(line, 1, Len(line) - 1), " ")

\* tok is the decimal form of the natural number v
IsDecimalOf(tok, v) ==
    /\ tok # <<>>
    /\ \A k \in 1..Len(tok) : tok[k] \in Range(Digit)
    /\ Len(tok) > 1 => tok[1] # "0"
    /\ int(tok) = v

\* line k of the file has one token per cell of recorded layout k, in
\* row-major order, the labels in Labels written in decimal and the
\* empty cells as '_'
Encodes(k, Labels) ==
    LET line == file[k]
        toks == TokensOf(line)
        L    == Recorded[k]
    IN  /\ line[Len(line)] = "\n"
        /\ \A p \in 1..(Len(line) - 1) : line[p] # "\n"
        /\ Len(toks) = N * N
        /\ \A i, j \in 0..(N - 1) :
              LET v == L[N * i + j + 1]
                  tok == toks[N * i + j + 1]
              IN  IF v = None THEN tok = <<"_">>
                  ELSE v \in Labels /\ IsDecimalOf(tok, v)

\* the claim as stated: every token is '_' or a label in 1..N*N-1
CE_C13 ==
    pc = "done" =>
        /\ Len(file) = Len(layouts)
        /\ \A k \in 1..Len(file) : Encodes(k, 1..(N * N - 1))

\* C13: every written line encodes one recorded layout as N*N
\* space-separated tokens in row-major order; the first token is the seed,
\* written '0', and every other token is '_' or the decimal form of a
\* label in 1..N*N-1
C13_LineFormat ==
    pc = "done" =>
        /\ Len(file) = Len(layouts)
        /\ \A k \in 1..Len(file) :
              /\ Encodes(k, 0..(N * N - 1))
              /\ TokensOf(file[k])[1] = <<"0">>
              /\ \A p \in 2..(N * N) : TokensOf(file[k])[p] # <<"0">>

\* a file was written that has a line with a label and an empty cell
W_C13 ==
    /\ pc = "done"
    /\ \E k \in 1..Len(file) :
          /\ <<"_">> \in Range(TokensOf(file[k]))
          /\ <<"2">> \in Range(TokensOf(file[k]))

\* ---- C14 ----------------------------------------------------------------

\* the call on top of the stack returns without having made a recursive call
LeafReturns == pc = "enum" /\ Len(stack') < Len(stack) /\ ~Top.found

\* C14: enum(Grid(0), turn=0) returns; the call at depth k of the stack has
\* turn k, one more than its caller's and at most N_TURNS; a call that
\* returns without a recursive call records its grid, at turn N_TURNS or
\* with no adjacent pair of empty cells
C14_Total ==
    /\ <>EnumReturned
    /\ [](\A k \in 1..Len(stack) :
             /\ stack[k].turn = k - 1
             /\ stack[k].turn <= N_TURNS)
    /\ [][LeafReturns =>
             /\ Appends
             /\ Appended = heap[Top.grid]
             /\ Top.turn = N_TURNS \/ ~HasFreePair(heap[Top.grid])]_vars

\* enum has returned after branches that ended at the last turn
W_C14 ==
    /\ EnumReturned
    /\ Len(layouts) > 1
    /\ \E k \in 1..Len(layouts) : IsFull(Recorded[k])

\* ---- C15 ----------------------------------------------------------------

\* the (line, starting symbol) pair whose grid is in `grid`
LastCombo ==
    IF epc = "KeyError" THEN <<li, si>>
    ELSE IF si > 1 THEN <<li, si - 1>>
    ELSE <<li - 1, Len(SYMBOLS)>>

\* the symbol the claim gives to the cell with token tok
SymbolFor(tok, starting_symbol) ==
    IF tok = <<"_">> THEN "_"
    ELSE LET v == int(tok) IN
         IF v = 0 THEN starting_symbol
         ELSE IF v % 2 = 1 THEN sequence[(v - 1) \div 2 + 1][1]
         ELSE sequence[(v - 2) \div 2 + 1][2]

Combos == (1..Len(layouts_txt)) \X (1..Len(SYMBOLS))

\* C15: for every line and starting symbol, the grid has the starting
\* symbol in the cell of label 0 (index 0), the first character of
\* sequence[t] in the cell of label 2t+1, the second in the cell of label
\* 2t+2 and '_' in the empty cells; the grid of any starting symbol
\* differs from the grid of the first one in no other cell; and `grid` is
\* the grid of the pair last reached
C15_SymbolGrid ==
    epc \in {"loop", "done", "KeyError"} =>
        /\ \A c \in Combos :
              LET toks  == TokensOf(layouts_txt[c[1]])
                  g     == GridAt(c)
                  first == GridAt(<<c[1], 1>>)
              IN  /\ toks[1] = <<"0">>
                  /\ Len(g) = N * N
                  /\ \A p \in 1..(N * N) :
                        g[p] = SymbolFor(toks[p], SYMBOLS[c[2]])
                  /\ \A p \in 2..(N * N) : g[p] = first[p]
        /\ grid # <<>> => grid = GridAt(LastCombo)

\* a grid was built from a layout with labels of the last turn and an
\* empty cell, with a starting symbol other than the first
W_C15 ==
    /\ Evaluated
    /\ N = 3
    /\ grid[1] = "B"
    /\ "_" \in Range(grid)
    /\ <<"6">> \in Range(TokensOf(layouts_txt[LastCombo[1]]))

\* ---- C16 ----------------------------------------------------------------

\* the grid of a call at turn t: the seed in cell (0,0) only, each label
\* 1..2t once, no other label, the other cells empty
WellLabelled(L, t) ==
    /\ Len(L) = N * N
    /\ Where(L, 0) = {1}
    /\ \A v \in 1..(2 * t) : Cardinality(Where(L, v)) = 1
    /\ \A p \in 1..Len(L) : L[p] = None \/ L[p] \in 0..(2 * t)
    /\ Cardinality(Where(L, None)) = N * N - 1 - 2 * t

\* the step is a placement: enum is called on a new grid
Places == pc = "enum" /\ Len(stack') > Len(stack)

\* C16: the grid of every call of enum at turn t has the seed 0 in cell
\* (0,0) only, each label 1..2t in exactly one cell, no greater label and
\* N*N - 1 - 2t empty cells; a placement changes only cells that were
\* empty in the caller's grid
C16_Labels ==
    /\ [](\A k \in 1..Len(stack) : WellLabelled(heap[stack[k].grid], stack[k].turn))
    /\ [][Places =>
             \A p \in 1..(N * N) :
                 heap'[stack'[Len(stack')].grid][p] # heap[Top.grid][p]
                     => heap[Top.grid][p] = None]_vars

\* a call of enum at the third turn, after placements on two earlier grids
W_C16 ==
    /\ pc = "enum"
    /\ Len(stack) = 4
    /\ Top.turn = 3
    /\ Where(heap[Top.grid], 6) # {}

\* ---- C17 ----------------------------------------------------------------

\* the cells in which two grids differ
Differing(L, M) == {p \in 1..Len(L) : L[p] # M[p]}

\* the calls that are on the stack before and after the step
Remaining == 1..(IF Len(stack') < Len(stack) THEN Len(stack') ELSE Len(stack))

\* C17: a placement writes two cells of a list that did not exist before
\* and changes no list that existed; no step changes the grid of a call
\* that stays on the stack, so a caller finds its grid as it left it and
\* all the placements of one call start from the same grid; and no step
\* changes a list that `layouts` holds
C17_Isolation ==
    /\ [][Places =>
             LET new == stack'[Len(stack')].grid IN
             /\ new \notin DOMAIN heap
             /\ \A r \in DOMAIN heap : r \in DOMAIN heap' /\ heap'[r] = heap[r]
             /\ Cardinality(Differing(heap'[new], heap[Top.grid])) = 2]_vars
    /\ [][\A k \in Remaining :
             /\ stack'[k].grid = stack[k].grid
             /\ stack'[k].turn = stack[k].turn
             /\ heap'[stack'[k].grid] = heap[stack[k].grid]]_vars
    /\ [][/\ Len(layouts') >= Len(layouts)
          /\ SubSeq(layouts', 1, Len(layouts)) = layouts
          /\ SubSeq(Recorded', 1, Len(layouts)) = Recorded]_vars

\* a call makes its second placement, after the first one has returned and
\* left a recorded layout
W_C17 ==
    /\ pc = "enum" /\ stack # <<>>
    /\ layouts # <<>>
    /\ Top.found
    /\ ENABLED EnumPlace

\* ---- C18 ----------------------------------------------------------------

\* C18: no two entries of `layouts` are the same list or equal lists: the
\* newest entry differs from every earlier one, and when enum has
\* returned there are as many different lists as entries
C18_Distinct ==
    /\ \A k \in Latest : \A m \in 1..(k - 1) :
          /\ layouts[m] # layouts[k]
          /\ Recorded[m] # Recorded[k]
    /\ EnumReturned => Cardinality(Range(Recorded)) = Len(layouts)

\* enum has returned with several layouts, two of which have their labels
\* in the same cells up to the order within a pair
W_C18 ==
    /\ EnumReturned
    /\ \E k \in 1..Len(layouts) : \E m \in 1..Len(layouts) :
          /\ k # m
          /\ Where(Recorded[k], None) = Where(Recorded[m], None)
          /\ Where(Recorded[k], 1) = Where(Recorded[m], 2)
          /\ Where(Recorded[k], 2) = Where(Recorded[m], 1)

\* ---- C19 ----------------------------------------------------------------

\* the table is the one precompute_scores builds for this N, and the
\* sequence is written in SYMBOLS
SameTableAndAlphabet ==
    /\ scores_json = PrecomputedTable
    /\ \A k \in 1..Len(symbols) : symbols[k] \in Range(SYMBOLS)

\* C19: with the table of precompute_scores and a sequence over SYMBOLS,
\* every row, column and diagonal of every grid built from a line of the
\* layouts file, stuck layouts included, is a key of the table, and the
\* evaluator never raises KeyError
C19_NoMiss ==
    SameTableAndAlphabet =>
        /\ epc # "KeyError"
        /\ epc \in {"loop", "done"} =>
              \A c \in Combos : \A k \in 1..Len(LinesOf(GridAt(c))) :
                  LinesOf(GridAt(c))[k] \in DOMAIN scores

\* every grid of a stuck layout was scored with the table of
\* precompute_scores, its last grid holding a line with a blank
W_C19 ==
    /\ epc = "done"
    /\ grid # <<>>
    /\ SameTableAndAlphabet
    /\ N = 3
    /\ \E k \in 1..Len(LinesOf(grid)) : "_" \in Range(LinesOf(grid)[k])

====
